---- MODULE Spec2Model ----
(***************************************************************************)
(* Serial Schedule Generation Scheme (sgs_algorithm), the random sampling  *)
(* driver (greedy_local_search) and the critical path bounds of the RCPSP  *)
(* course notebooks.                                                        *)
(***************************************************************************)
EXTENDS Integers, Sequences, FiniteSets, TLC

(* ------------------------------ bounds --------------------------------- *)

\* largest task duration of the enumerated problems
MaxDur == 3

\* largest per-task demand on the resource
MaxDemand == 2

\* largest capacity of the resource
MaxCap == 2

\* number of time steps of the capacity arrays (the problem's horizon)
Horizon == 5

\* how many times sgs_algorithm is called in a row on the same problem object
MaxCalls == 2

\* largest n_iteration given to greedy_local_search
MaxIter == 2

\* largest nb_breaks given to create_variable_resource
MaxBreaks == 2

\* len_break = random.randint(1, 5): the longest break
MaxLenBreak == 5

(* --------------------------- problem model ----------------------------- *)

\* Python's None, where a time is expected (no time is negative)
None == -1

source_task == "source"

sink_task == "sink"

resources_list == {"R"}

TimeSteps == 0 .. (Horizon - 1)

Max(S) == CHOOSE x \in S : \A y \in S : y <= x

Min(S) == CHOOSE x \in S : \A y \in S : x <= y

Range(s) == {s[i] : i \in DOMAIN s}

\* mode_details[k][1] of a task: its duration and, for the resources it
\* names, the units it needs (a resource it does not name is not a key)
Mode(d, q) ==
    [duration |-> d,
     needs |-> [r \in (IF q > 0 THEN resources_list ELSE {}) |-> q]]

\* a capacity array: c units at every step, 0 on the steps of brk
Calendar(c, brk) == [t \in TimeSteps |-> IF t \in brk THEN 0 ELSE c]

\* no break, a break on the second step, a break on the third step
Breaks == {{}, {1}, {2}}

Calendars == {Calendar(c, brk) : c \in 1 .. MaxCap, brk \in Breaks}

\* source -> A -> sink
ChainProblems ==
    {[tasks_list |-> <<source_task, "A", sink_task>>,
      successors |-> [k \in {source_task, "A", sink_task} |->
                        CASE k = source_task -> {"A"}
                          [] k = "A" -> {sink_task}
                          [] OTHER -> {}],
      mode_details |-> [k \in {source_task, "A", sink_task} |->
                        IF k = "A" THEN Mode(d, q) ELSE Mode(0, 0)],
      resources |-> [r \in resources_list |-> cal],
      horizon |-> Horizon]
     : d \in 0 .. MaxDur, q \in 0 .. MaxDemand, cal \in Calendars}

\* source -> {B, C} -> sink, with or without the edge B -> C
PairProblemsOf(durs, needs, edges, cals) ==
    {[tasks_list |-> <<source_task, "B", "C", sink_task>>,
      successors |-> [k \in {source_task, "B", "C", sink_task} |->
                        CASE k = source_task -> IF e THEN {"B"} ELSE {"B", "C"}
                          [] k = "B" -> IF e THEN {"C"} ELSE {sink_task}
                          [] k = "C" -> {sink_task}
                          [] OTHER -> {}],
      mode_details |-> [k \in {source_task, "B", "C", sink_task} |->
                        CASE k = "B" -> Mode(dq[1], dq[2])
                          [] k = "C" -> Mode(dq[3], dq[4])
                          [] OTHER -> Mode(0, 0)],
      resources |-> [r \in resources_list |-> cal],
      horizon |-> Horizon]
     : dq \in durs \X needs \X durs \X needs, e \in edges, cal \in cals}

PairProblems == PairProblemsOf(0 .. MaxDur, 0 .. MaxDemand, BOOLEAN, Calendars)

Problems == ChainProblems \cup PairProblems

\* the problems the sampling driver is run on: B and C compete for the resource,
\* which has no break, a break on its third step, or breaks on its third and
\* fifth steps (a gap of two steps, then a gap of one)
SearchProblems ==
    PairProblemsOf(1 .. MaxDur, 1 .. MaxDemand, {FALSE},
                   {Calendar(c, brk) : c \in 1 .. MaxCap, brk \in {{}, {2}, {2, 4}}})

n_jobs(problem) == Len(problem.tasks_list)

Tasks(problem) == Range(problem.tasks_list)

\* random.shuffle(l): the orderings it can leave in the list l
Shuffles(l) ==
    {p \in [DOMAIN l -> Range(l)] : \A x \in Range(l) : \E i \in DOMAIN p : p[i] = x}

(* ------------------------- sgs_algorithm: set-up ----------------------- *)

VARIABLES
    rcpsp_problem,           \* the Problem Model object the caller holds
    permutation_of_task,     \* argument of sgs_algorithm
    predecessors,            \* task -> set of direct predecessors
    schedule,                \* task -> [start_time, end_time], None when unset
    resources_availability,  \* resource -> [ref, data]: array object and content
    completed_tasks,
    pc,                      \* "idle", "loop", "returned", "raised"
    results,                 \* outcome of every finished call, oldest first
    gls_pc,                  \* greedy_local_search: "idle", "loop", "returned", "raised"
    n_iteration,
    i,                       \* passes of the for loop made
    current_permutation,
    makespan,
    best_makespan,
    best_permutation,
    best_schedule,
    trials,                  \* every trial made: its permutation and makespan
    best_trial,              \* which trial the best schedule comes from
    workers,                 \* trials run side by side: worker -> its call of sgs_algorithm
    duration,                \* 'Duration of critical path' of the networkx cell
    new_problem,             \* what create_variable_resource returned
    map_node,                \* solver.map_node: task -> its four CPM dates
    critical_path            \* what run_classic_cpm returned

sgs_vars == <<permutation_of_task, predecessors, resources_availability,
              completed_tasks, pc, results>>

gls_vars == <<gls_pc, n_iteration, i, current_permutation, makespan,
              best_makespan, best_permutation, best_schedule, trials, best_trial>>

cpm_vars == <<map_node, critical_path>>

nb_vars == <<workers, duration, new_problem, cpm_vars>>

vars == <<rcpsp_problem, schedule, sgs_vars, gls_vars, nb_vars>>

\* the inversion written the wrong way round: predecessors[k].add(s)
ComputePredecessorsSwapped(problem) ==
    [s \in Tasks(problem) |-> problem.successors[s]]

\* predecessors = {k: set()}, then predecessors[s].add(k) for s in successors[k]
ComputePredecessors(problem) ==
    [s \in Tasks(problem) |-> {k \in DOMAIN problem.successors : s \in problem.successors[k]}]

\* the duration read under a key the mode does not have, 0 by default
duration_taskMissingKey(problem) ==
    [k \in Tasks(problem) |-> 0]

\* every task taken one step longer than the problem says
duration_taskOffByOne(problem) ==
    [k \in Tasks(problem) |-> problem.mode_details[k].duration + 1]

\* duration_task = {k: mode_details[k][1]["duration"]}
duration_task(problem) ==
    [k \in Tasks(problem) |-> problem.mode_details[k].duration]

\* the needs read under a key the mode does not have: .get gives 0 every time
resource_consumptionsMissingKey(problem) ==
    [k \in Tasks(problem) |-> [r \in resources_list |-> 0]]

\* resource_consumptions = {k: {r: mode_details[k][1].get(r, 0)}}
resource_consumptions(problem) ==
    [k \in Tasks(problem) |->
        [r \in resources_list |->
            IF r \in DOMAIN problem.mode_details[k].needs
            THEN problem.mode_details[k].needs[r] ELSE 0]]

\* the breaks of the calendar lost: the largest capacity on every step
get_resource_availability_arrayConstant(problem, r) ==
    [ref |-> "fresh",
     data |-> [t \in DOMAIN problem.resources[r] |->
                Max({problem.resources[r][u] : u \in DOMAIN problem.resources[r]})]]

\* get_resource_availability_array(r): the array object the problem stores
get_resource_availability_array(problem, r) ==
    [ref |-> "problem", data |-> problem.resources[r]]

\* no copy: the array object of the problem itself (as np.asarray gives)
np_asarray(a) == a

\* np.array(a): a new array object with the content of a
np_array(a) == [ref |-> "local", data |-> a.data]

\* schedule = {t: {"start_time": None, "end_time": None}}, then the source at 0
InitialSchedule(problem) ==
    [t \in Tasks(problem) |->
        IF t = source_task THEN [start_time |-> 0, end_time |-> 0]
        ELSE [start_time |-> None, end_time |-> None]]

\* the loop left one task early
LoopGuardOffByOne(problem, completed) == Cardinality(completed) < n_jobs(problem) - 1

\* while len(completed_tasks) < rcpsp_problem.n_jobs
LoopGuard(problem, completed) == Cardinality(completed) < n_jobs(problem)

(* ------------------------ sgs_algorithm: one round --------------------- *)

\* not completed, every predecessor completed
Eligible(preds, completed, j) ==
    j \notin completed /\ preds[j] \subseteq completed

\* no task: what next_task holds when the scan finds nothing
NoTask == "None"

\* first eligible task in permutation order
NextTask(perm, preds, completed) ==
    LET idx == {n \in DOMAIN perm : Eligible(preds, completed, perm[n])}
    IN IF idx = {} THEN NoTask ELSE perm[Min(idx)]

\* max end time of the predecessors, 0 without predecessors
EarliestStartByPred(preds, sched, j) ==
    Max({0} \cup {sched[k].end_time : k \in preds[j]})

\* every demanded resource has the units on every step of [t, t + d)
WindowFree(problem, avail, j, t) ==
    LET need == resource_consumptions(problem)[j]
        d == duration_task(problem)[j]
    IN \A r \in resources_list :
        need[r] > 0 =>
            \A u \in t .. (t + d - 1) :
                /\ u < problem.horizon
                /\ avail[r].data[u] >= need[r]

\* smallest feasible start from the precedence floor on, None past the horizon
StartOfTask(problem, avail, j, floor) ==
    LET cand == {t \in floor .. Max({floor, problem.horizon}) :
                    WindowFree(problem, avail, j, t)}
    IN IF cand = {} THEN None ELSE Min(cand)

\* resources_availability[r][t : t + d] -= need
Decrement(problem, avail, j, t) ==
    LET need == resource_consumptions(problem)[j]
        d == duration_task(problem)[j]
    IN [r \in resources_list |->
        [avail[r] EXCEPT !.data =
            [u \in DOMAIN avail[r].data |->
                IF t <= u /\ u < t + d
                THEN avail[r].data[u] - need[r]
                ELSE avail[r].data[u]]]]

\* what the arrays of the problem hold once avail has been written: an array
\* object shared with the problem shows the write
WriteThrough(problem, avail) ==
    [problem EXCEPT !.resources =
        [r \in resources_list |->
            IF avail[r].ref = "problem" THEN avail[r].data ELSE problem.resources[r]]]

\* the set-up without its last lines: the source neither placed nor completed
SgsEnterSourceUnset(problem) ==
    [rcpsp_problem |-> problem,
     schedule |-> [t \in Tasks(problem) |-> [start_time |-> None, end_time |-> None]],
     resources_availability |->
        [r \in resources_list |-> np_array(get_resource_availability_array(problem, r))],
     completed_tasks |-> {},
     pc |-> "loop"]

\* the state sgs_algorithm starts its loop from
SgsEnter(problem) ==
    [rcpsp_problem |-> problem,
     schedule |-> InitialSchedule(problem),
     resources_availability |->
        [r \in resources_list |-> np_array(get_resource_availability_array(problem, r))],
     completed_tasks |-> {source_task},
     pc |-> "loop"]

\* the commit of task j at start t, or the error when there is no j or no t
RoundFrom(st, j, t) ==
    LET avail == Decrement(st.rcpsp_problem, st.resources_availability, j, t)
    IN IF j = NoTask THEN [st EXCEPT !.pc = "raised"]
       ELSE IF t = None THEN [st EXCEPT !.pc = "raised"]
       ELSE [rcpsp_problem |-> WriteThrough(st.rcpsp_problem, avail),
             schedule |-> [st.schedule EXCEPT ![j] =
                [start_time |-> t,
                 end_time |-> t + duration_task(st.rcpsp_problem)[j]]],
             resources_availability |-> avail,
             completed_tasks |-> st.completed_tasks \cup {j},
             pc |-> "loop"]

\* one pass of the loop body: select, floor, search, commit
SgsRound(perm, preds, st) ==
    CHOOSE out \in UNION {
        {RoundFrom(st, j, t) :
            t \in {IF j = NoTask THEN None
                   ELSE StartOfTask(st.rcpsp_problem, st.resources_availability, j,
                                    EarliestStartByPred(preds, st.schedule, j))}} :
        j \in {NextTask(perm, preds, st.completed_tasks)}} : TRUE

\* the loop, run to its end: "returned" with the schedule, or "raised"
RECURSIVE SgsLoop(_, _, _)
SgsLoop(perm, preds, st) ==
    IF st.pc # "loop" THEN st
    ELSE IF LoopGuard(st.rcpsp_problem, st.completed_tasks)
         THEN CHOOSE out \in {SgsLoop(perm, preds, nx) :
                                nx \in {SgsRound(perm, preds, st)}} : TRUE
         ELSE [st EXCEPT !.pc = "returned"]

\* sgs_algorithm(problem, perm, None), from the call to its end
sgs_algorithm(problem, perm) ==
    SgsLoop(perm, ComputePredecessors(problem), SgsEnter(problem))

(* ------------------- critical path bounds and the validator ------------- *)

\* the direct predecessors of j: the successor relation, inverted
DirectPredecessors(problem, j) ==
    {k \in Tasks(problem) : j \in problem.successors[k]}

\* forward pass: ESD[j] = max EFD of the predecessors, EFD[j] = ESD[j] + duration
RECURSIVE EFD(_, _)
ESD(problem, j) ==
    Max({0} \cup {EFD(problem, k) : k \in DirectPredecessors(problem, j)})

EFD(problem, j) == ESD(problem, j) + problem.mode_details[j].duration

\* units of r that task k needs, as the problem states them
Demand(problem, k, r) ==
    IF r \in DOMAIN problem.mode_details[k].needs
    THEN problem.mode_details[k].needs[r] ELSE 0

\* the tasks running at step t: start <= t < end
ActiveAt(sched, t) ==
    {k \in DOMAIN sched : sched[k].start_time <= t /\ t < sched[k].end_time}

RECURSIVE SumDemand(_, _, _)
SumDemand(problem, S, r) ==
    IF S = {} THEN 0
    ELSE LET k == CHOOSE x \in S : TRUE
         IN Demand(problem, k, r) + SumDemand(problem, S \ {k}, r)

PrecedenceBound(problem, sched) ==
    \A k \in Tasks(problem) : \A j \in problem.successors[k] :
        sched[j].start_time >= sched[k].end_time

ResourceBound(problem, sched) ==
    \A r \in resources_list : \A t \in 0 .. (problem.horizon - 1) :
        SumDemand(problem, ActiveAt(sched, t), r) <= problem.resources[r][t]

\* every task has its times, end = start + duration
Total(problem, sched) ==
    \A k \in Tasks(problem) :
        /\ sched[k].start_time \in Nat
        /\ sched[k].end_time = sched[k].start_time + problem.mode_details[k].duration

\* satisfy(solution): the validator re-checks precedence and capacity
satisfy(problem, sched) ==
    /\ Total(problem, sched)
    /\ PrecedenceBound(problem, sched)
    /\ ResourceBound(problem, sched)

(* --------------------------- sgs_algorithm: steps ---------------------- *)

SgsState ==
    [rcpsp_problem |-> rcpsp_problem,
     schedule |-> schedule,
     resources_availability |-> resources_availability,
     completed_tasks |-> completed_tasks,
     pc |-> pc]

Become(st) ==
    /\ rcpsp_problem' = st.rcpsp_problem
    /\ schedule' = st.schedule
    /\ resources_availability' = st.resources_availability
    /\ completed_tasks' = st.completed_tasks
    /\ pc' = st.pc

\* what a call gave its caller: the schedule, or the error it raised
Outcome(st) ==
    IF st.pc = "returned" THEN [kind |-> "schedule", schedule |-> st.schedule]
    ELSE [kind |-> "UnschedulableTaskError",
          schedule |-> [t \in DOMAIN st.schedule |-> [start_time |-> None, end_time |-> None]]]

\* the source stands first in the list on the four-task problems (it is completed
\* before the first scan); every place of it is drawn on the three-task problems
Orderings(problem) ==
    {p \in Shuffles(problem.tasks_list) :
        n_jobs(problem) > 3 => p[1] = source_task}

\* a schedule with no time set
Unset(problem) ==
    [t \in Tasks(problem) |-> [start_time |-> None, end_time |-> None]]

\* no call of sgs_algorithm under way
SgsIdle ==
    /\ predecessors = [t \in Tasks(rcpsp_problem) |-> {}]
    /\ schedule = Unset(rcpsp_problem)
    /\ resources_availability = [r \in resources_list |-> [ref |-> "local", data |-> Calendar(0, {})]]
    /\ completed_tasks = {}
    /\ results = <<>>

\* no problem object
NoProblem == [tasks_list |-> <<>>]

\* no trial started side by side, no cell run yet
NbIdle ==
    /\ workers = <<>>
    /\ duration = None
    /\ new_problem = NoProblem
    /\ map_node = <<>>
    /\ critical_path = <<>>

\* no call of greedy_local_search under way
GlsIdle ==
    /\ i = 0
    /\ current_permutation = <<>>
    /\ makespan = None
    /\ best_makespan = None
    /\ best_permutation = <<>>
    /\ best_schedule = Unset(rcpsp_problem)
    /\ trials = <<>>
    /\ best_trial = 0

Init ==
    /\ rcpsp_problem \in Problems
    /\ permutation_of_task \in Orderings(rcpsp_problem)
    /\ SgsIdle
    /\ pc = "idle"
    /\ GlsIdle
    /\ gls_pc = "off"
    /\ n_iteration = 0
    /\ NbIdle

\* sgs_algorithm(rcpsp_problem, permutation_of_task, None): everything up to the loop
SgsCall ==
    /\ pc = "idle"
    /\ predecessors' = ComputePredecessors(rcpsp_problem)
    /\ Become(SgsEnter(rcpsp_problem))
    /\ UNCHANGED <<permutation_of_task, results, gls_vars, nb_vars>>

\* a pass of the loop that places a task
SgsCommit ==
    /\ pc = "loop"
    /\ LoopGuard(rcpsp_problem, completed_tasks)
    /\ \E st \in {SgsRound(permutation_of_task, predecessors, SgsState)} :
          /\ st.pc = "loop"
          /\ Become(st)
    /\ UNCHANGED <<permutation_of_task, predecessors, results, gls_vars, nb_vars>>

\* a pass of the loop that finds no place for its task
SgsRaise ==
    /\ pc = "loop"
    /\ LoopGuard(rcpsp_problem, completed_tasks)
    /\ \E st \in {SgsRound(permutation_of_task, predecessors, SgsState)} :
          /\ st.pc = "raised"
          /\ Become(st)
    /\ results' = Append(results, Outcome([SgsState EXCEPT !.pc = "raised"]))
    /\ UNCHANGED <<permutation_of_task, predecessors, gls_vars, nb_vars>>

\* return schedule
SgsReturn ==
    /\ pc = "loop"
    /\ ~LoopGuard(rcpsp_problem, completed_tasks)
    /\ pc' = "returned"
    /\ results' = Append(results, Outcome([SgsState EXCEPT !.pc = "returned"]))
    /\ UNCHANGED <<rcpsp_problem, permutation_of_task, predecessors, schedule,
                   resources_availability, completed_tasks, gls_vars, nb_vars>>

\* the caller calls sgs_algorithm again, on the same problem object and with
\* the same permutation; the call runs to its end
SgsCallAgain ==
    /\ pc \in {"returned", "raised"}
    /\ Len(results) < MaxCalls
    /\ \E st \in {sgs_algorithm(rcpsp_problem, permutation_of_task)} :
          /\ Become(st)
          /\ results' = Append(results, Outcome(st))
    /\ predecessors' = ComputePredecessors(rcpsp_problem)
    /\ UNCHANGED <<permutation_of_task, gls_vars, nb_vars>>

Next == SgsCall \/ SgsCommit \/ SgsRaise \/ SgsReturn \/ SgsCallAgain

Spec == Init /\ [][Next]_vars

(* -------------------------- greedy_local_search ------------------------ *)

\* the orderings the driver's shuffles are drawn from: the source first and the
\* sink last, the other tasks in every order
SearchOrderings(problem) ==
    {p \in Shuffles(problem.tasks_list) :
        p[1] = source_task /\ p[n_jobs(problem)] = sink_task}

\* schedule[problem.sink_task]["end_time"]
Makespan(sched) == sched[sink_task].end_time

\* a trial that ties replaces the best one
ImprovesOrTies(m, best) == m <= best

\* the comparison the wrong way round
ImprovesReversed(m, best) == m > best

\* if makespan < best_makespan
Improves(m, best) == m < best

Trial(perm, m) == [permutation |-> perm, makespan |-> m]

InitSearch ==
    /\ rcpsp_problem \in SearchProblems
    /\ n_iteration \in 0 .. MaxIter
    /\ permutation_of_task = <<>>
    /\ SgsIdle
    /\ pc = "off"
    /\ GlsIdle
    /\ gls_pc = "idle"
    /\ NbIdle

\* the call, up to the for loop: the first trial becomes the best one
GlsCall ==
    /\ gls_pc = "idle"
    /\ \E perm \in SearchOrderings(rcpsp_problem) :
        \E st \in {sgs_algorithm(rcpsp_problem, perm)} :
            /\ st.pc = "returned"
            /\ rcpsp_problem' = st.rcpsp_problem
            /\ current_permutation' = perm
            /\ schedule' = st.schedule
            /\ makespan' = Makespan(st.schedule)
            /\ best_makespan' = Makespan(st.schedule)
            /\ best_permutation' = perm
            /\ best_schedule' = st.schedule
            /\ trials' = <<Trial(perm, Makespan(st.schedule))>>
            /\ best_trial' = 1
    /\ gls_pc' = "loop"
    /\ UNCHANGED <<sgs_vars, nb_vars, n_iteration, i>>

\* one pass of the for loop: shuffle, sgs_algorithm, keep the trial if it improves
GlsIterate ==
    /\ gls_pc = "loop"
    /\ i < n_iteration
    /\ \E perm \in SearchOrderings(rcpsp_problem) :
        \E st \in {sgs_algorithm(rcpsp_problem, perm)} :
            /\ st.pc = "returned"
            /\ rcpsp_problem' = st.rcpsp_problem
            /\ current_permutation' = perm
            /\ schedule' = st.schedule
            /\ makespan' = Makespan(st.schedule)
            /\ IF Improves(Makespan(st.schedule), best_makespan)
               THEN /\ best_makespan' = Makespan(st.schedule)
                    /\ best_permutation' = perm
                    /\ best_schedule' = st.schedule
                    /\ best_trial' = Len(trials) + 1
               ELSE UNCHANGED <<best_makespan, best_permutation, best_schedule,
                                best_trial>>
            /\ trials' = Append(trials, Trial(perm, Makespan(st.schedule)))
    /\ i' = i + 1
    /\ UNCHANGED <<sgs_vars, nb_vars, n_iteration, gls_pc>>

\* sgs_algorithm raises in a trial, the first or a later one: nothing catches it
GlsRaise ==
    /\ gls_pc \in {"idle", "loop"}
    /\ gls_pc = "loop" => i < n_iteration
    /\ \E perm \in SearchOrderings(rcpsp_problem) :
        \E st \in {sgs_algorithm(rcpsp_problem, perm)} :
            /\ st.pc = "raised"
            /\ rcpsp_problem' = st.rcpsp_problem
            /\ current_permutation' = perm
    /\ gls_pc' = "raised"
    /\ UNCHANGED <<schedule, sgs_vars, nb_vars, n_iteration, i, makespan, best_makespan,
                   best_permutation, best_schedule, trials, best_trial>>

\* return RcpspSolution(problem=problem, rcpsp_schedule=best_schedule)
GlsReturn ==
    /\ gls_pc = "loop"
    /\ i >= n_iteration
    /\ gls_pc' = "returned"
    /\ UNCHANGED <<rcpsp_problem, schedule, sgs_vars, nb_vars, n_iteration, i,
                   current_permutation, makespan, best_makespan, best_permutation,
                   best_schedule, trials, best_trial>>

NextSearch == GlsCall \/ GlsIterate \/ GlsRaise \/ GlsReturn

SpecSearch == InitSearch /\ [][NextSearch]_vars

(* ---------------------- the ways sgs_algorithm is called ---------------- *)

\* a parameter the def line gives no default value
NoDefault == "no default"

\* def sgs_algorithm(rcpsp_problem, permutation_of_task, predecessors: dict[...]):
\* the default value of the parameter predecessors
predecessors_default == NoDefault

\* what the parameter predecessors is bound to: the argument when the call gives
\* one ("None" or "map"), else the default, else the call is a TypeError
BindPredecessors(given) ==
    IF given # "missing" THEN given
    ELSE IF predecessors_default # NoDefault THEN predecessors_default
    ELSE "TypeError"

\* the map a caller passes: for every task the tasks it is a successor of
CallerPredecessors(problem) ==
    [j \in Tasks(problem) |-> DirectPredecessors(problem, j)]

\* the list of the other tasks with the source put at place at (0: left out)
InsertSource(perm, at) ==
    IF at = 0 THEN perm
    ELSE [n \in 1 .. (Len(perm) + 1) |->
            IF n < at THEN perm[n] ELSE IF n = at THEN source_task ELSE perm[n - 1]]

\* a call of sgs_algorithm, from the binding of its arguments to its end
sgs_call(problem, perm, given) ==
    LET bound == BindPredecessors(given)
    IN IF bound = "TypeError"
       THEN [rcpsp_problem |-> problem,
             schedule |-> Unset(problem),
             resources_availability |->
                [r \in resources_list |-> [ref |-> "local", data |-> Calendar(0, {})]],
             completed_tasks |-> {},
             pc |-> "TypeError"]
       ELSE SgsLoop(perm,
                    IF bound = "None" THEN ComputePredecessors(problem)
                    ELSE CallerPredecessors(problem),
                    SgsEnter(problem))

\* what the call gave: a schedule or the error, with the form of the call
CallOutcome(form, st) ==
    [source_at |-> form.source_at,
     given |-> form.given,
     kind |-> IF st.pc = "TypeError" THEN "TypeError" ELSE Outcome(st).kind,
     schedule |-> Outcome(st).schedule]

\* B and C last 1 or MaxDur steps and use the resource, with or without B -> C
CallProblems ==
    PairProblemsOf({1, MaxDur}, 1 .. MaxDemand, BOOLEAN,
                   {Calendar(c, brk) : c \in 1 .. MaxCap, brk \in {{}, {2}}})

\* the orderings of the tasks other than the source
CallOrderings(problem) ==
    Shuffles([n \in 1 .. (n_jobs(problem) - 1) |-> problem.tasks_list[n + 1]])

\* the source first and predecessors=None
ReferenceForm == [source_at |-> 1, given |-> "None"]

\* the source left out or at any place with predecessors=None; the source first
\* with a map passed, or with no third argument
CallForms(problem) ==
    {[source_at |-> at, given |-> "None"] : at \in 0 .. n_jobs(problem)}
        \cup {[source_at |-> 1, given |-> g] : g \in {"map", "missing"}}

InitCall ==
    /\ rcpsp_problem \in CallProblems
    /\ permutation_of_task \in CallOrderings(rcpsp_problem)
    /\ SgsIdle
    /\ pc = "idle"
    /\ GlsIdle
    /\ gls_pc = "off"
    /\ n_iteration = 0
    /\ NbIdle

\* one call in the given form, run to its end
CallIn(form) ==
    \E st \in {sgs_call(rcpsp_problem,
                        InsertSource(permutation_of_task, form.source_at),
                        form.given)} :
        /\ Become(st)
        /\ results' = Append(results, CallOutcome(form, st))
        /\ predecessors' =
            IF st.pc = "TypeError" THEN predecessors
            ELSE IF form.given = "None" THEN ComputePredecessors(rcpsp_problem)
            ELSE CallerPredecessors(rcpsp_problem)

\* sgs_algorithm(rcpsp_problem, [source] + permutation, None)
CallFirst ==
    /\ pc = "idle"
    /\ CallIn(ReferenceForm)
    /\ UNCHANGED <<permutation_of_task, gls_vars, nb_vars>>

\* a later call on the same problem object, in any form
CallOther ==
    /\ pc # "idle"
    /\ Len(results) < MaxCalls
    /\ \E form \in CallForms(rcpsp_problem) : CallIn(form)
    /\ UNCHANGED <<permutation_of_task, gls_vars, nb_vars>>

NextCall == CallFirst \/ CallOther

SpecCall == InitCall /\ [][NextCall]_vars

(* ------------------------ trials run side by side --------------------- *)

\* the trials started side by side, in the order their results are reduced
WorkerOrder == <<"w1", "w2">>

WorkerIds == Range(WorkerOrder)

\* the problems the trials are run on
ConcurrentProblems ==
    PairProblemsOf(1 .. MaxDur, 1 .. MaxDemand, {FALSE},
                   {Calendar(c, brk) : c \in 1 .. MaxCap, brk \in {{}, {2}}})

\* what an array holds when it is read: an array object shared with the problem
\* shows what any call wrote into it
ReadThrough(problem, avail) ==
    [r \in resources_list |->
        IF avail[r].ref = "problem"
        THEN [avail[r] EXCEPT !.data = problem.resources[r]]
        ELSE avail[r]]

\* the locals of a call that has not started
NotStarted(problem) ==
    [rcpsp_problem |-> problem,
     schedule |-> Unset(problem),
     resources_availability |->
        [r \in resources_list |-> [ref |-> "local", data |-> Calendar(0, {})]],
     completed_tasks |-> {},
     pc |-> "idle"]

\* the call of worker w as it stands: its own locals, the problem object all share
View(w) ==
    [workers[w].call EXCEPT
        !.rcpsp_problem = rcpsp_problem,
        !.resources_availability = ReadThrough(rcpsp_problem, @)]

\* worker w takes a step that leaves its call in state st
Step(w, st) ==
    /\ workers' = [workers EXCEPT ![w].call = st]
    /\ rcpsp_problem' = st.rcpsp_problem

\* the best makespan the for loop of greedy_local_search keeps over the trials
\* of perms, taken in order
RECURSIVE SequentialBest(_, _, _, _)
SequentialBest(problem, perms, n, best) ==
    IF n > Len(perms) THEN best
    ELSE LET m == Makespan(sgs_algorithm(problem, perms[n]).schedule)
         IN SequentialBest(problem, perms, n + 1,
                           IF n = 1 \/ Improves(m, best) THEN m ELSE best)

InitConcurrent ==
    /\ rcpsp_problem \in ConcurrentProblems
    /\ workers \in [WorkerIds ->
            {[permutation |-> p, call |-> NotStarted(rcpsp_problem)]
                : p \in SearchOrderings(rcpsp_problem)}]
    /\ permutation_of_task = <<>>
    /\ SgsIdle
    /\ pc = "off"
    /\ GlsIdle
    /\ gls_pc = "off"
    /\ n_iteration = 0
    /\ duration = None
    /\ new_problem = NoProblem
    /\ map_node = <<>>
    /\ critical_path = <<>>

\* worker w enters sgs_algorithm: the set-up, up to the loop
WorkerCall(w) ==
    /\ workers[w].call.pc = "idle"
    /\ Step(w, SgsEnter(rcpsp_problem))
    /\ UNCHANGED <<schedule, sgs_vars, gls_vars, duration, new_problem, cpm_vars>>

\* worker w makes a pass of its loop that places a task
WorkerCommit(w) ==
    /\ workers[w].call.pc = "loop"
    /\ LoopGuard(rcpsp_problem, workers[w].call.completed_tasks)
    /\ \E st \in {SgsRound(workers[w].permutation,
                           ComputePredecessors(rcpsp_problem), View(w))} :
          /\ st.pc = "loop"
          /\ Step(w, st)
    /\ UNCHANGED <<schedule, sgs_vars, gls_vars, duration, new_problem, cpm_vars>>

\* worker w makes a pass of its loop that finds no place for its task
WorkerRaise(w) ==
    /\ workers[w].call.pc = "loop"
    /\ LoopGuard(rcpsp_problem, workers[w].call.completed_tasks)
    /\ \E st \in {SgsRound(workers[w].permutation,
                           ComputePredecessors(rcpsp_problem), View(w))} :
          /\ st.pc = "raised"
          /\ Step(w, st)
    /\ UNCHANGED <<schedule, sgs_vars, gls_vars, duration, new_problem, cpm_vars>>

\* worker w leaves its loop and returns its schedule
WorkerReturn(w) ==
    /\ workers[w].call.pc = "loop"
    /\ ~LoopGuard(rcpsp_problem, workers[w].call.completed_tasks)
    /\ Step(w, [View(w) EXCEPT !.pc = "returned"])
    /\ UNCHANGED <<schedule, sgs_vars, gls_vars, duration, new_problem, cpm_vars>>

\* the reduction: of the schedules the workers returned, one of least makespan
Reduce ==
    /\ gls_pc = "off"
    /\ \A w \in WorkerIds : workers[w].call.pc = "returned"
    /\ \E w \in WorkerIds :
        /\ \A v \in WorkerIds :
            Makespan(workers[w].call.schedule) <= Makespan(workers[v].call.schedule)
        /\ best_makespan' = Makespan(workers[w].call.schedule)
        /\ best_schedule' = workers[w].call.schedule
        /\ best_permutation' = workers[w].permutation
    /\ gls_pc' = "reduced"
    /\ UNCHANGED <<rcpsp_problem, schedule, sgs_vars, nb_vars, n_iteration, i,
                   current_permutation, makespan, trials, best_trial>>

NextConcurrent ==
    \/ \E w \in WorkerIds :
        WorkerCall(w) \/ WorkerCommit(w) \/ WorkerRaise(w) \/ WorkerReturn(w)
    \/ Reduce

SpecConcurrent == InitConcurrent /\ [][NextConcurrent]_vars

(* ------------- the critical path cell, create_variable_resource -------- *)

\* the weight the cell gives the edge u -> v: the duration of v in its shortest
\* mode (the tasks have one mode), overwritten by 1 when v is the sink
min_duration(problem, u, v) ==
    IF v = sink_task THEN 1 ELSE problem.mode_details[v].duration

\* the largest weight of a path of the precedence graph that ends in v
RECURSIVE LongestPathTo(_, _)
LongestPathTo(problem, v) ==
    Max({0} \cup {LongestPathTo(problem, u) + min_duration(problem, u, v)
                    : u \in DirectPredecessors(problem, v)})

\* nx.dag_longest_path, then the sum of min_duration along the path it gives
dag_longest_path_duration(problem) ==
    Max({LongestPathTo(problem, v) : v \in Tasks(problem)})

\* rcpsp_problem.get_max_resource_capacity(r)
get_max_resource_capacity(problem, r) ==
    Max({problem.resources[r][t] : t \in DOMAIN problem.resources[r]})

\* np.full(n, v): a new array of n entries v
np_full(n, v) == [ref |-> "fresh", data |-> [t \in 0 .. (n - 1) |-> v]]

\* the arrays of the problem given, used as they are
InitialAvailabilityShared(problem, new_horizon) ==
    [r \in resources_list |-> get_resource_availability_array(problem, r)]

\* resource_availability = {r: np.full(new_horizon, get_max_resource_capacity(r))}
InitialAvailability(problem, new_horizon) ==
    [r \in resources_list |-> np_full(new_horizon, get_max_resource_capacity(problem, r))]

\* a[t : t + len_break] = 0: the slice stops at the end of the array
SetBreak(a, t, len_break) ==
    [a EXCEPT !.data =
        [u \in DOMAIN a.data |-> IF t <= u /\ u < t + len_break THEN 0 ELSE a.data[u]]]

\* the arrays nb_breaks passes of the loop 'for j in range(nb_breaks)' can
\* leave, from any of the arrays of S
RECURSIVE WithBreaks(_, _)
WithBreaks(S, nb_breaks) ==
    IF nb_breaks = 0 THEN S
    ELSE WithBreaks(UNION {{SetBreak(a, t, len_break)
                                : t \in DOMAIN a.data, len_break \in 1 .. MaxLenBreak}
                            : a \in S},
                    nb_breaks - 1)

\* RcpspProblem(resources=resource_availability, ..., horizon=new_horizon-1, ...)
RcpspProblem(problem, avail, new_horizon) ==
    [tasks_list |-> problem.tasks_list,
     successors |-> problem.successors,
     mode_details |-> problem.mode_details,
     resources |-> [r \in resources_list |-> avail[r].data],
     horizon |-> new_horizon - 1]

\* the problems the two cells are run on
CellProblems ==
    ChainProblems
        \cup PairProblemsOf({1, MaxDur}, {1}, BOOLEAN, {Calendar(MaxCap, {})})

InitCells ==
    /\ rcpsp_problem \in CellProblems
    /\ permutation_of_task = <<>>
    /\ SgsIdle
    /\ pc = "off"
    /\ GlsIdle
    /\ gls_pc = "off"
    /\ n_iteration = 0
    /\ NbIdle

\* the cell that prints 'Duration of critical path'
CriticalPathCell ==
    /\ duration = None
    /\ duration' = dag_longest_path_duration(rcpsp_problem)
    /\ UNCHANGED <<rcpsp_problem, schedule, sgs_vars, gls_vars, workers, new_problem, cpm_vars>>

\* create_variable_resource(rcpsp_problem, new_horizon, nb_breaks), the resources
\* taken one after the other
create_variable_resource ==
    /\ new_problem = NoProblem
    /\ \E new_horizon \in {rcpsp_problem.horizon - 1, rcpsp_problem.horizon} :
       \E nb_breaks \in 0 .. MaxBreaks :
       \E arrays \in
            {[r \in resources_list |->
                WithBreaks({InitialAvailability(rcpsp_problem, new_horizon)[r]}, nb_breaks)]} :
       \E resource_availability \in
            [resources_list -> UNION {arrays[r] : r \in resources_list}] :
          /\ \A r \in resources_list : resource_availability[r] \in arrays[r]
          /\ rcpsp_problem' = WriteThrough(rcpsp_problem, resource_availability)
          /\ new_problem' = RcpspProblem(WriteThrough(rcpsp_problem, resource_availability),
                                         resource_availability, new_horizon)
    /\ UNCHANGED <<schedule, sgs_vars, gls_vars, workers, duration, cpm_vars>>

NextCells == CriticalPathCell \/ create_variable_resource

SpecCells == InitCells /\ [][NextCells]_vars

(* ----------------------- the critical path method ---------------------- *)

RECURSIVE LSD(_, _)
\* the latest finish taken from the successor that starts last
LFDMax(problem, k) ==
    IF k = sink_task THEN EFD(problem, sink_task)
    ELSE Max({LSD(problem, j) : j \in problem.successors[k]})

\* backward pass: LFD[sink] = EFD[sink], LFD[k] = min LSD of the successors
LFD(problem, k) ==
    IF k = sink_task THEN EFD(problem, sink_task)
    ELSE Min({LSD(problem, j) : j \in problem.successors[k]})

\* backward pass: LSD[k] = LFD[k] - duration
LSD(problem, k) == LFD(problem, k) - problem.mode_details[k].duration

\* solver.map_node once both passes are made
CpmNodes(problem) ==
    [k \in Tasks(problem) |->
        [ESD |-> ESD(problem, k), EFD |-> EFD(problem, k),
         LSD |-> LSD(problem, k), LFD |-> LFD(problem, k)]]

\* the sequences the path loop can build from path: at each step any successor
\* of the last task that has ESD = LSD, until the sink is reached
RECURSIVE PathsFrom(_, _, _)
PathsFrom(problem, nodes, path) ==
    IF path[Len(path)] = sink_task THEN {path}
    ELSE UNION {PathsFrom(problem, nodes, Append(path, j)) :
                 j \in {s \in problem.successors[path[Len(path)]] :
                            nodes[s].ESD = nodes[s].LSD}}

\* source -> A -> B -> sink and source -> C -> D -> sink, with or without the
\* edge A -> D; no task uses the resource
DiamondProblems ==
    {[tasks_list |-> <<source_task, "A", "B", "C", "D", sink_task>>,
      successors |-> [k \in {source_task, "A", "B", "C", "D", sink_task} |->
                        CASE k = source_task -> {"A", "C"}
                          [] k = "A" -> IF e THEN {"B", "D"} ELSE {"B"}
                          [] k = "C" -> {"D"}
                          [] k \in {"B", "D"} -> {sink_task}
                          [] OTHER -> {}],
      mode_details |-> [k \in {source_task, "A", "B", "C", "D", sink_task} |->
                        CASE k = "A" -> Mode(d[1], 0)
                          [] k = "B" -> Mode(d[2], 0)
                          [] k = "C" -> Mode(d[3], 0)
                          [] k = "D" -> Mode(d[4], 0)
                          [] OTHER -> Mode(0, 0)],
      resources |-> [r \in resources_list |-> Calendar(1, {})],
      horizon |-> Horizon]
     : d \in (0 .. MaxDur) \X (0 .. MaxDur) \X (0 .. MaxDur) \X (0 .. MaxDur),
       e \in BOOLEAN}

CpmProblems ==
    DiamondProblems \cup
    PairProblemsOf(0 .. MaxDur, {0}, BOOLEAN, {Calendar(1, {})})

InitCpm ==
    /\ rcpsp_problem \in CpmProblems
    /\ permutation_of_task = rcpsp_problem.tasks_list
    /\ SgsIdle
    /\ pc = "off"
    /\ GlsIdle
    /\ gls_pc = "off"
    /\ n_iteration = 0
    /\ NbIdle

\* solver = CpmRcpspSolver(rcpsp_problem); critical_path = solver.run_classic_cpm()
run_classic_cpm ==
    /\ map_node = <<>>
    /\ \E nodes \in {CpmNodes(rcpsp_problem)} :
          /\ map_node' = nodes
          /\ critical_path' \in PathsFrom(rcpsp_problem, nodes, <<source_task>>)
    /\ UNCHANGED <<rcpsp_problem, schedule, sgs_vars, gls_vars, workers, duration,
                   new_problem>>

NextCpm == run_classic_cpm

SpecCpm == InitCpm /\ [][NextCpm]_vars

(* ------------------------ a call that is left to run ------------------- *)

\* the chains, and the pairs in which B and C use the resource
TerminationProblems ==
    ChainProblems \cup
    PairProblemsOf({1, MaxDur}, {1, MaxDemand}, BOOLEAN,
                   {Calendar(c, brk) : c \in 1 .. MaxCap, brk \in {{}, {2}}})

InitTermination ==
    /\ rcpsp_problem \in TerminationProblems
    /\ permutation_of_task \in Orderings(rcpsp_problem)
    /\ SgsIdle
    /\ pc = "idle"
    /\ GlsIdle
    /\ gls_pc = "off"
    /\ n_iteration = 0
    /\ NbIdle

\* the interpreter runs the call: a step that can be taken is taken
SpecTermination == InitTermination /\ [][Next]_vars /\ WF_vars(Next)

(* ------------------------------- claims -------------------------------- *)

Returned == pc = "returned"

PairProblem == n_jobs(rcpsp_problem) = 4

\* B stands before C in the permutation given to sgs_algorithm
BBeforeC ==
    \E m, n \in DOMAIN permutation_of_task :
        m < n /\ permutation_of_task[m] = "B" /\ permutation_of_task[n] = "C"

\* C1: whenever sgs_algorithm returns, every task starts no earlier than each of
\* its direct predecessors ends.
C1_PrecedenceBound ==
    Returned => PrecedenceBound(rcpsp_problem, schedule)

\* a returned schedule of a problem with the edge B -> C, C standing before B in
\* the permutation, B lasting some time and C starting right when B ends
C1_Witness ==
    /\ Returned /\ PairProblem /\ ~BBeforeC
    /\ "C" \in rcpsp_problem.successors["B"]
    /\ rcpsp_problem.mode_details["B"].duration > 0
    /\ schedule["C"].start_time = schedule["B"].end_time

\* C2: in the schedule sgs_algorithm returns, at every step of the horizon the
\* tasks running need no more units than the resource has there, steps of zero
\* capacity included, and the validator accepts the schedule.
C2_ResourceBound ==
    Returned =>
        /\ ResourceBound(rcpsp_problem, schedule)
        /\ satisfy(rcpsp_problem, schedule)

\* a returned schedule on a calendar with a step of zero capacity, where B and C
\* both use the resource, together need more than it has, and one of them runs
\* after the break
C2_Witness ==
    /\ Returned /\ PairProblem
    /\ \E t \in TimeSteps : rcpsp_problem.resources["R"][t] = 0
    /\ \A k \in {"B", "C"} :
        Demand(rcpsp_problem, k, "R") > 0 /\ rcpsp_problem.mode_details[k].duration > 0
    /\ Demand(rcpsp_problem, "B", "R") + Demand(rcpsp_problem, "C", "R")
            > rcpsp_problem.resources["R"][0]
    /\ \E k \in {"B", "C"} : schedule[k].start_time >= 2

\* C3: the schedule sgs_algorithm returns is total: every task has a start that
\* is a natural number and an end equal to start + duration, none is left at
\* None, and the source is at (0, 0).
C3_TotalSchedule ==
    Returned =>
        /\ DOMAIN schedule = Tasks(rcpsp_problem)
        /\ \A k \in Tasks(rcpsp_problem) :
            /\ schedule[k].start_time # None /\ schedule[k].end_time # None
            /\ schedule[k].start_time \in Nat /\ schedule[k].end_time \in Nat
            /\ schedule[k].end_time
                    = schedule[k].start_time + rcpsp_problem.mode_details[k].duration
        /\ schedule[source_task] = [start_time |-> 0, end_time |-> 0]

\* a returned schedule of four tasks whose sink ends after time 0
C3_Witness ==
    /\ Returned /\ PairProblem
    /\ schedule[sink_task].end_time > 0
    /\ Cardinality(completed_tasks) = 4

\* C4: every call of sgs_algorithm on the same problem object with the same
\* permutation gives the same outcome, task by task, a call made after another
\* call included.
C4_Deterministic ==
    \A m, n \in DOMAIN results : results[m] = results[n]

\* two calls were made one after the other, the first returned a schedule in
\* which a task that uses the resource was placed
C4_Witness ==
    /\ Len(results) >= 2
    /\ results[1].kind = "schedule"
    /\ \E k \in Tasks(rcpsp_problem) :
        /\ Demand(rcpsp_problem, k, "R") > 0
        /\ results[1].schedule[k].end_time > results[1].schedule[k].start_time

C6_CpmLowerBound ==
    Returned => EFD(rcpsp_problem, sink_task) <= schedule[sink_task].end_time

\* a returned schedule whose makespan is above the critical path bound because
\* the resource made a task wait, the bound being positive
C6_Witness ==
    /\ Returned
    /\ EFD(rcpsp_problem, sink_task) > 0
    /\ schedule[sink_task].end_time > EFD(rcpsp_problem, sink_task)

GlsReturned == gls_pc = "returned"

TrialMakespans == {trials[k].makespan : k \in DOMAIN trials}

\* C7: greedy_local_search returns the schedule of one of the n_iteration + 1
\* trials it made; its makespan is the smallest makespan of those trials; of the
\* trials that reach this makespan the best schedule comes from the earliest;
\* with n_iteration = 0 it is the schedule of the first trial.
C7_BestOfTrials ==
    GlsReturned =>
        /\ Len(trials) = n_iteration + 1
        /\ best_makespan = Min(TrialMakespans)
        /\ best_trial = Min({k \in DOMAIN trials : trials[k].makespan = Min(TrialMakespans)})
        /\ best_permutation = trials[best_trial].permutation
        /\ best_schedule = sgs_algorithm(rcpsp_problem, best_permutation).schedule
        /\ Makespan(best_schedule) = best_makespan
        /\ n_iteration = 0 => best_trial = 1

\* returned after three trials: the second improved on the first, the third
\* tied with the second
C7_Witness ==
    /\ GlsReturned
    /\ Len(trials) = 3
    /\ trials[2].makespan < trials[1].makespan
    /\ trials[3].makespan = trials[2].makespan
    /\ best_trial = 2

\* C8: from one pass of the for loop to the next the best makespan never goes
\* up, so one more iteration over the same sequence of shuffles never returns a
\* larger makespan.
C8_MonotonicImprovement ==
    [][(gls_pc = "loop" /\ gls_pc' \in {"loop", "returned"})
            => best_makespan' <= best_makespan]_vars

\* in the loop, after a pass that brought the best makespan below the makespan of
\* the first trial
C8_Witness ==
    /\ gls_pc = "loop"
    /\ i >= 1
    /\ best_makespan < trials[1].makespan

\* B lasts 3 and C lasts 1, each needs q units of R, no edge between them, R has
\* cap units on every step, B stands before C in the permutation
Scenario(q, cap) ==
    /\ PairProblem
    /\ rcpsp_problem.successors["B"] = {sink_task}
    /\ rcpsp_problem.mode_details["B"] = Mode(3, q)
    /\ rcpsp_problem.mode_details["C"] = Mode(1, q)
    /\ \A t \in TimeSteps : rcpsp_problem.resources["R"][t] = cap
    /\ BBeforeC

Ended == pc \in {"returned", "raised"}

At(k, s, e) == schedule[k] = [start_time |-> s, end_time |-> e]

\* C9 as stated: B and C each need 2 units, R has 2: B = (0, 3) and C = (0, 1),
\* the two running at the same time.
C9_Original ==
    (Scenario(2, 2) /\ Ended) => (Returned /\ At("B", 0, 3) /\ At("C", 0, 1))

\* C9 amended: with 2 units of R, B and C run at the same time, B = (0, 3) and
\* C = (0, 1), when each needs 1 unit; when each needs 2 units B takes both for
\* [0, 3) and C waits: B = (0, 3), C = (3, 4).
C9_Scenario2 ==
    /\ (Scenario(1, 2) /\ Ended) => (Returned /\ At("B", 0, 3) /\ At("C", 0, 1))
    /\ (Scenario(2, 2) /\ Ended) => (Returned /\ At("B", 0, 3) /\ At("C", 3, 4))

\* the call returned on the scenario with 2 units needed by each task, C after B
C9_Witness ==
    Scenario(2, 2) /\ Returned /\ schedule["C"].start_time = 3

ChainScenario ==
    /\ n_jobs(rcpsp_problem) = 3
    /\ rcpsp_problem.mode_details["A"] = Mode(2, 1)
    /\ \A t \in TimeSteps : rcpsp_problem.resources["R"][t] = 1
    /\ permutation_of_task = <<source_task, "A", sink_task>>

\* C11: on the chain source -> A (2 steps, 1 unit of R) -> sink with 1 unit of R
\* throughout and permutation [source, A, sink], sgs_algorithm returns
\* A = (0, 2) and sink = (2, 2): the makespan is 2.
C11_Scenario1 ==
    (ChainScenario /\ Ended) =>
        /\ Returned
        /\ At(source_task, 0, 0) /\ At("A", 0, 2) /\ At(sink_task, 2, 2)
        /\ Makespan(schedule) = 2

\* the first call on the chain scenario has returned
C11_Witness ==
    ChainScenario /\ Returned /\ Len(results) = 1

RECURSIVE SumDuration(_, _)
SumDuration(problem, S) ==
    IF S = {} THEN 0
    ELSE LET k == CHOOSE x \in S : TRUE
         IN problem.mode_details[k].duration + SumDuration(problem, S \ {k})

\* no task needs more units than the resource has at its best step
WithinMaxCapacity(problem) ==
    \A k \in Tasks(problem) : \A r \in resources_list :
        Demand(problem, k, r)
            <= Max({problem.resources[r][t] : t \in DOMAIN problem.resources[r]})

\* no task needs more units than the resource has at any step, and the tasks put
\* end to end fit in the horizon
AlwaysRoom(problem) ==
    /\ \A k \in Tasks(problem) : \A r \in resources_list :
        \A t \in DOMAIN problem.resources[r] :
            Demand(problem, k, r) <= problem.resources[r][t]
    /\ SumDuration(problem, Tasks(problem)) <= problem.horizon

\* C12 as stated: when every demand is at most the largest capacity of its
\* resource over the horizon, sgs_algorithm never fails.
C12_Original ==
    WithinMaxCapacity(rcpsp_problem) => pc # "raised"

\* C12 amended: when every demand is at most the capacity of its resource at
\* every step and the durations of all tasks add up to at most the horizon,
\* sgs_algorithm never fails, whatever the permutation.
C12_NeverFails ==
    AlwaysRoom(rcpsp_problem) => pc # "raised"

\* a call returned on a problem with room at every step where B and C cannot
\* share the resource and the last task ends exactly at the horizon
C12_Witness ==
    /\ Returned /\ PairProblem
    /\ AlwaysRoom(rcpsp_problem)
    /\ Demand(rcpsp_problem, "B", "R") + Demand(rcpsp_problem, "C", "R")
            > rcpsp_problem.resources["R"][0]
    /\ SumDuration(rcpsp_problem, Tasks(rcpsp_problem)) = rcpsp_problem.horizon
    /\ Makespan(schedule) = rcpsp_problem.horizon

\* task k uses a resource for some time
Occupies(problem, k) ==
    /\ problem.mode_details[k].duration > 0
    /\ \E r \in resources_list : Demand(problem, k, r) > 0

\* C13: sgs_algorithm ends in one of two ways. Either it returns a schedule with
\* every task placed, in which every task that uses a resource for some time
\* lies inside [0, horizon); or it raises in a round whose task has no feasible
\* window at any start from its precedence floor on. No call returns a schedule
\* with a task left unplaced.
C13_TwoOutcomes ==
    /\ \A n \in DOMAIN results :
        results[n].kind \in {"schedule", "UnschedulableTaskError"}
    /\ Returned =>
        /\ Total(rcpsp_problem, schedule)
        /\ \A k \in Tasks(rcpsp_problem) :
            Occupies(rcpsp_problem, k) =>
                /\ 0 <= schedule[k].start_time
                /\ schedule[k].end_time <= rcpsp_problem.horizon
    /\ pc = "raised" =>
        LET j == NextTask(permutation_of_task, predecessors, completed_tasks)
        IN /\ j # NoTask
           /\ Occupies(rcpsp_problem, j)
           /\ \A t \in EarliestStartByPred(predecessors, schedule, j)
                        .. (rcpsp_problem.horizon + MaxDur) :
                \E r \in resources_list : \E u \in t .. (t + rcpsp_problem.mode_details[j].duration - 1) :
                    /\ Demand(rcpsp_problem, j, r) > 0
                    /\ (u >= rcpsp_problem.horizon
                        \/ resources_availability[r].data[u] < Demand(rcpsp_problem, j, r))

\* the call raised after it had placed a task that uses the resource
C13_Witness ==
    /\ pc = "raised" /\ PairProblem
    /\ \E k \in completed_tasks :
        Occupies(rcpsp_problem, k) /\ schedule[k].end_time > schedule[k].start_time

\* C14: a trial on which sgs_algorithm fails is dropped and the driver goes on:
\* greedy_local_search is never ended by the failure of a trial once it holds a
\* best schedule.
C14_DiscardsFailedTrial ==
    ~(gls_pc = "raised" /\ trials # <<>>)

\* the calls made with predecessors bound (None or a map)
BoundCalls == {n \in DOMAIN results : results[n].given # "missing"}

\* C15: the place of the source in the permutation does not matter: with the
\* other tasks in the same order, sgs_algorithm gives the same outcome, task by
\* task, with the source left out, first, or at any other place.
C15_SourcePosition ==
    \A m, n \in BoundCalls :
        /\ results[m].kind = results[n].kind
        /\ results[m].schedule = results[n].schedule

\* after a call with the source first, a call with the source left out or put
\* behind a task returned a schedule in which C starts later than 0
C15_Witness ==
    /\ Len(results) = 2
    /\ results[2].given = "None" /\ results[2].source_at \in {0, 3, 4}
    /\ results[2].kind = "schedule"
    /\ results[2].schedule["C"].start_time > 0

\* C17: a call that passes no predecessor map is a valid call: it gives what the
\* call passing the inverted successor relation gives.
C17_TwoArgumentCall ==
    \A m \in DOMAIN results :
        results[m].given = "missing" =>
            /\ results[m].kind # "TypeError"
            /\ \A n \in BoundCalls :
                results[n].source_at = results[m].source_at =>
                    /\ results[m].kind = results[n].kind
                    /\ results[m].schedule = results[n].schedule

\* C16: trials run side by side on the same problem object interfere with one
\* another in no interleaving of their rounds: every trial ends as it ends when
\* run alone, the problem stays as it was, and the least makespan of the
\* returned schedules is the best makespan the sequential driver keeps over the
\* same permutations.
C16_ConcurrentTrials ==
    /\ rcpsp_problem \in ConcurrentProblems
    /\ \A w \in WorkerIds :
        workers[w].call.pc \in {"returned", "raised"} =>
            Outcome(workers[w].call)
                = Outcome(sgs_algorithm(rcpsp_problem, workers[w].permutation))
    /\ gls_pc = "reduced" =>
        best_makespan
            = SequentialBest(rcpsp_problem,
                             [n \in DOMAIN WorkerOrder |-> workers[WorkerOrder[n]].permutation],
                             1, None)

\* two trials with different permutations, both using the resource, returned
\* schedules of different makespans and the results were reduced
C16_Witness ==
    /\ gls_pc = "reduced"
    /\ workers["w1"].permutation # workers["w2"].permutation
    /\ Makespan(workers["w1"].call.schedule) # Makespan(workers["w2"].call.schedule)
    /\ best_makespan < Makespan(workers["w1"].call.schedule)

\* C18: the 'Duration of critical path' the networkx cell prints is a lower
\* bound: it is at most the earliest finish date of the sink, and at most the
\* makespan of every schedule sgs_algorithm returns for the problem.
C18_CriticalPathBound ==
    duration # None =>
        /\ duration <= EFD(rcpsp_problem, sink_task)
        /\ \A p \in Orderings(rcpsp_problem) :
            sgs_algorithm(rcpsp_problem, p).pc = "returned"
                => duration <= Makespan(sgs_algorithm(rcpsp_problem, p).schedule)

\* C19: create_variable_resource leaves the problem it is given as it was, and
\* in the problem it returns every capacity array has new_horizon entries (one
\* more than the horizon it declares), each of them 0 or the largest capacity
\* the resource has in the problem given.
C19_NewProblem ==
    [][new_problem' # new_problem =>
        /\ rcpsp_problem' = rcpsp_problem
        /\ new_problem'.tasks_list = rcpsp_problem.tasks_list
        /\ \A r \in resources_list :
            /\ DOMAIN new_problem'.resources[r] = 0 .. new_problem'.horizon
            /\ \A t \in DOMAIN new_problem'.resources[r] :
                /\ new_problem'.resources[r][t]
                        \in {0, get_max_resource_capacity(rcpsp_problem, r)}
                /\ new_problem'.resources[r][t] >= 0]_vars

\* a problem was returned whose array has a break and has a full step where the
\* problem given has a break
C19_Witness ==
    /\ new_problem # NoProblem
    /\ \E t \in DOMAIN new_problem.resources["R"] : new_problem.resources["R"][t] = 0
    /\ \E t \in DOMAIN new_problem.resources["R"] :
        /\ rcpsp_problem.resources["R"][t] = 0
        /\ new_problem.resources["R"][t] = get_max_resource_capacity(rcpsp_problem, "R")
        /\ new_problem.resources["R"][t] > 0

\* the place of task k in the permutation
Position(perm, k) == CHOOSE n \in DOMAIN perm : perm[n] = k

\* k may be placed: it is not completed and every task it succeeds is
CanBePlaced(k) ==
    /\ k \notin completed_tasks
    /\ DirectPredecessors(rcpsp_problem, k) \subseteq completed_tasks

\* C20: every round of sgs_algorithm commits one task, and it is the first task
\* of the permutation that is not completed and whose direct predecessors are
\* all completed: no task that may be placed and stands earlier is passed over.
C20_SelectionRule ==
    [][(pc = "loop" /\ pc' = "loop" /\ completed_tasks' # completed_tasks) =>
        \E j \in Tasks(rcpsp_problem) :
            /\ completed_tasks' = completed_tasks \cup {j}
            /\ CanBePlaced(j)
            /\ schedule'[j].start_time # None
            /\ \A k \in Tasks(rcpsp_problem) \ {j} :
                CanBePlaced(k) =>
                    Position(permutation_of_task, j) < Position(permutation_of_task, k)]_vars

\* C was committed while B could be placed too: C stands before B
C20_Witness ==
    /\ pc = "loop" /\ PairProblem /\ ~BBeforeC
    /\ completed_tasks = {source_task, "C"}
    /\ CanBePlaced("B")
    /\ sink_task \in rcpsp_problem.successors["B"]

\* a round placed a task: the loop goes on and completed_tasks grew
Committing == pc = "loop" /\ pc' = "loop" /\ completed_tasks' # completed_tasks

\* the latest end of the direct predecessors of j, 0 without any
Floor(j) ==
    Max({0} \cup {schedule[k].end_time : k \in DirectPredecessors(rcpsp_problem, j)})

\* before the round, some demanded resource lacks units on some step of the
\* window of j started at t, or the window leaves the horizon
Blocked(j, t) ==
    \E r \in resources_list :
        /\ Demand(rcpsp_problem, j, r) > 0
        /\ \E u \in t .. (t + rcpsp_problem.mode_details[j].duration - 1) :
            \/ u >= rcpsp_problem.horizon
            \/ resources_availability[r].data[u] < Demand(rcpsp_problem, j, r)

\* C21: the start t a round gives its task j is the smallest t >= floor(j) whose
\* whole window [t, t + duration) has the units j needs of every resource it
\* demands: the window at t is free, and the window at every t' with
\* floor(j) <= t' < t is blocked on at least one of its steps.
C21_FirstFit ==
    [][Committing =>
        \A j \in completed_tasks' \ completed_tasks :
            /\ schedule'[j].start_time >= Floor(j)
            /\ ~Blocked(j, schedule'[j].start_time)
            /\ \A t \in Floor(j) .. (schedule'[j].start_time - 1) : Blocked(j, t)]_vars

\* A lasts at least 2 steps and was placed at 2 behind a break on step 1,
\* although step 0 had the units it needs
C21_Witness ==
    /\ Returned /\ n_jobs(rcpsp_problem) = 3
    /\ rcpsp_problem.mode_details["A"].duration >= 2
    /\ Demand(rcpsp_problem, "A", "R") > 0
    /\ rcpsp_problem.resources["R"][0] >= Demand(rcpsp_problem, "A", "R")
    /\ rcpsp_problem.resources["R"][1] = 0
    /\ schedule["A"].start_time = 2

\* C22: a round that places task j at t sets schedule[j] to (t, t + duration),
\* adds j to completed_tasks and takes the units j needs from the steps of
\* [t, t + duration) only; the times of every other task, every other entry of
\* the remaining capacity and the problem are left as they were, and no later
\* step of the call changes the times of a completed task.
C22_CommitFrame ==
    [][/\ Committing =>
            \E j \in Tasks(rcpsp_problem) \ completed_tasks :
                /\ completed_tasks' = completed_tasks \cup {j}
                /\ schedule'[j].end_time
                        = schedule'[j].start_time + rcpsp_problem.mode_details[j].duration
                /\ \A k \in Tasks(rcpsp_problem) \ {j} : schedule'[k] = schedule[k]
                /\ \A r \in resources_list : \A u \in DOMAIN resources_availability[r].data :
                    resources_availability'[r].data[u]
                        = resources_availability[r].data[u]
                            - (IF schedule'[j].start_time <= u /\ u < schedule'[j].end_time
                               THEN Demand(rcpsp_problem, j, r) ELSE 0)
                /\ rcpsp_problem' = rcpsp_problem
       /\ pc = "loop" => \A k \in completed_tasks : schedule'[k] = schedule[k]]_vars

\* two tasks that use the resource have been placed, the second behind the first
C22_Witness ==
    /\ pc = "loop" /\ PairProblem
    /\ {"B", "C"} \subseteq completed_tasks
    /\ \A k \in {"B", "C"} : Occupies(rcpsp_problem, k)
    /\ schedule["C"].start_time >= schedule["B"].end_time
    /\ \E u \in TimeSteps :
        resources_availability["R"].data[u] < rcpsp_problem.resources["R"][u]

\* C23: a call of sgs_algorithm ends. While a task is left, some task can be
\* placed; a round that places a task adds exactly one task, not completed
\* before; the loop starts from the source alone and the call returns only with
\* every task completed, that is after n_jobs - 1 rounds; a call in its loop comes to its end, and it returns when
\* the problem has room for every task.
C23_Terminates ==
    /\ []((pc = "loop" /\ LoopGuard(rcpsp_problem, completed_tasks))
            => \E k \in Tasks(rcpsp_problem) \ completed_tasks :
                    /\ DirectPredecessors(rcpsp_problem, k) \subseteq completed_tasks
                    /\ k \in Range(permutation_of_task))
    /\ [][Committing =>
            \E j \in Tasks(rcpsp_problem) \ completed_tasks :
                completed_tasks' = completed_tasks \cup {j}]_vars
    /\ [][pc = "idle" /\ pc' = "loop" => completed_tasks' = {source_task}]_vars
    /\ [](Returned =>
            /\ completed_tasks = Tasks(rcpsp_problem)
            /\ Cardinality(completed_tasks \ {source_task}) = n_jobs(rcpsp_problem) - 1)
    /\ (pc = "loop" ~> Ended)
    /\ ((pc = "loop" /\ AlwaysRoom(rcpsp_problem)) ~> Returned)

\* a call on four tasks returned after three rounds, two of which placed a task
\* that uses the resource
C23_Witness ==
    /\ Returned /\ PairProblem
    /\ Cardinality(completed_tasks) = 4
    /\ \A k \in {"B", "C"} :
        Occupies(rcpsp_problem, k) /\ schedule[k].end_time > schedule[k].start_time

\* the precedence paths that lead from the last task of path to the sink
RECURSIVE PrecedencePathsFrom(_, _)
PrecedencePathsFrom(problem, path) ==
    IF path[Len(path)] = sink_task THEN {path}
    ELSE UNION {PrecedencePathsFrom(problem, Append(path, j)) :
                 j \in problem.successors[path[Len(path)]]}

SourceToSinkPaths(problem) == PrecedencePathsFrom(problem, <<source_task>>)

PathDuration(problem, path) == SumDuration(problem, Range(path))

CpmDone == map_node # <<>>

DiamondProblem == n_jobs(rcpsp_problem) = 6

\* C24: the dates of run_classic_cpm satisfy the recurrences of the two passes,
\* and EFD[sink] is the largest sum of durations over the source-to-sink paths.
C24_Recurrences ==
    CpmDone =>
        /\ map_node[source_task].ESD = 0
        /\ map_node[sink_task].LFD = map_node[sink_task].EFD
        /\ \A k \in Tasks(rcpsp_problem) :
            /\ k # source_task =>
                map_node[k].ESD =
                    Max({map_node[q].EFD : q \in DirectPredecessors(rcpsp_problem, k)})
            /\ map_node[k].EFD = map_node[k].ESD + rcpsp_problem.mode_details[k].duration
            /\ k # sink_task =>
                map_node[k].LFD =
                    Min({map_node[j].LSD : j \in rcpsp_problem.successors[k]})
            /\ map_node[k].LSD = map_node[k].LFD - rcpsp_problem.mode_details[k].duration
        /\ map_node[sink_task].EFD =
            Max({PathDuration(rcpsp_problem, path) : path \in SourceToSinkPaths(rcpsp_problem)})

\* the passes made on six tasks, D having two predecessors that end at different
\* dates and A two successors that start at different latest dates, the three
\* paths of three different durations
C24_Witness ==
    /\ CpmDone /\ DiamondProblem
    /\ "D" \in rcpsp_problem.successors["A"]
    /\ map_node["A"].EFD # map_node["C"].EFD
    /\ map_node["B"].LSD # map_node["D"].LSD
    /\ Cardinality({PathDuration(rcpsp_problem, path) :
                        path \in SourceToSinkPaths(rcpsp_problem)}) = 3
    /\ map_node[sink_task].EFD > MaxDur

\* C25: for every task ESD <= LSD and EFD <= LFD, ESD = LSD exactly when
\* EFD = LFD, and exactly when the task lies on a source-to-sink path whose
\* duration is EFD[sink]; the source and the sink have ESD = LSD.
C25_CriticalTasks ==
    CpmDone =>
        /\ \A k \in Tasks(rcpsp_problem) :
            /\ map_node[k].ESD <= map_node[k].LSD
            /\ map_node[k].EFD <= map_node[k].LFD
            /\ (map_node[k].ESD = map_node[k].LSD) <=> (map_node[k].EFD = map_node[k].LFD)
            /\ (map_node[k].ESD = map_node[k].LSD) <=>
                    \E path \in SourceToSinkPaths(rcpsp_problem) :
                        /\ k \in Range(path)
                        /\ PathDuration(rcpsp_problem, path) = map_node[sink_task].EFD
        /\ map_node[source_task].ESD = map_node[source_task].LSD
        /\ map_node[sink_task].ESD = map_node[sink_task].LSD

\* the passes made on six tasks of which A and B have ESD = LSD and C and D
\* have not, every task lasting at least one step
C25_Witness ==
    /\ CpmDone /\ DiamondProblem
    /\ \A k \in {"A", "B", "C", "D"} : rcpsp_problem.mode_details[k].duration > 0
    /\ \A k \in {"A", "B"} : map_node[k].ESD = map_node[k].LSD
    /\ \A k \in {"C", "D"} : map_node[k].ESD < map_node[k].LSD

\* C26: the sequence run_classic_cpm returns is a precedence path from the
\* source to the sink, and the durations of its tasks sum to EFD[sink],
\* whichever successor with ESD = LSD was taken at each step.
C26_AnyChoice ==
    CpmDone =>
        /\ critical_path \in SourceToSinkPaths(rcpsp_problem)
        /\ PathDuration(rcpsp_problem, critical_path) = map_node[sink_task].EFD

\* the call is past its set-up
InCall == pc \in {"loop", "returned", "raised"}

\* the completed tasks whose window [start, end) holds step u
CommittedAt(u) ==
    {k \in completed_tasks : schedule[k].start_time <= u /\ u < schedule[k].end_time}

\* C27: after every round, the remaining capacity of every resource at every
\* step is the declared capacity less the demands of the completed tasks whose
\* window holds the step, and it is not negative.
C27_Accounting ==
    InCall =>
        \A r \in resources_list : \A u \in TimeSteps :
            /\ resources_availability[r].data[u] =
                rcpsp_problem.resources[r][u] - SumDemand(rcpsp_problem, CommittedAt(u), r)
            /\ resources_availability[r].data[u] >= 0

\* B and C placed on a common step of a resource with a break, and the two
\* together leave no unit on that step
C27_Witness ==
    /\ InCall /\ PairProblem
    /\ \E t \in TimeSteps : rcpsp_problem.resources["R"][t] = 0
    /\ \E u \in TimeSteps :
        /\ {"B", "C"} \subseteq CommittedAt(u)
        /\ \A k \in {"B", "C"} : Demand(rcpsp_problem, k, "R") > 0
        /\ resources_availability["R"].data[u] = 0

\* C28: the sink is the last task placed, wherever it stands in the
\* permutation, and in the schedule returned its end is the largest end.
C28_SinkLast ==
    /\ (InCall /\ sink_task \in completed_tasks) =>
            completed_tasks = Tasks(rcpsp_problem)
    /\ Returned =>
            schedule[sink_task].end_time =
                Max({schedule[k].end_time : k \in Tasks(rcpsp_problem)})

\* the sink stands before B and C in the permutation of a call that returned,
\* with B and C ending at different dates
C28_Witness ==
    /\ Returned /\ PairProblem
    /\ Position(permutation_of_task, sink_task) < Position(permutation_of_task, "B")
    /\ Position(permutation_of_task, sink_task) < Position(permutation_of_task, "C")
    /\ schedule["B"].end_time # schedule["C"].end_time
    /\ schedule[sink_task].end_time > 0

\* every predecessor stands before its successors in perm
Topological(problem, perm) ==
    \A k \in Tasks(problem) : \A j \in problem.successors[k] :
        Position(perm, k) < Position(perm, j)

\* C29: a task is placed only when its direct predecessors are (the source,
\* which has none, at the set-up); when every predecessor stands before its
\* successors in the permutation, the tasks are placed in the order of the
\* permutation: every task standing before the one placed is already placed.
C29_CommitOrder ==
    [][/\ (pc = "idle" /\ pc' = "loop") =>
            /\ completed_tasks' = {source_task}
            /\ DirectPredecessors(rcpsp_problem, source_task) = {}
       /\ Committing =>
            \A j \in completed_tasks' \ completed_tasks :
                /\ DirectPredecessors(rcpsp_problem, j) \subseteq completed_tasks
                /\ Topological(rcpsp_problem, permutation_of_task) =>
                    \A m \in 1 .. (Position(permutation_of_task, j) - 1) :
                        permutation_of_task[m] \in completed_tasks]_vars

\* B and C may run side by side, C stands before B in the permutation, and C
\* alone has been placed after the source
C29_Witness ==
    /\ pc = "loop" /\ PairProblem
    /\ rcpsp_problem.successors[source_task] = {"B", "C"}
    /\ permutation_of_task = <<source_task, "C", "B", sink_task>>
    /\ completed_tasks = {source_task, "C"}

\* every resource has, at every step, the units all the tasks need together
NeverConstrains(problem) ==
    \A r \in resources_list : \A t \in DOMAIN problem.resources[r] :
        problem.resources[r][t] >= SumDemand(problem, Tasks(problem), r)

====
